---- MODULE Spec2Model ----
(***************************************************************************)
(* Result store (result_storage.py) and selection orchestrator             *)
(* (api_server.py: run_selection) of StockTradebyZ.                        *)
(*                                                                         *)
(* Strings that take part in path building are sequences of one-character  *)
(* strings, so that the path arithmetic of pathlib can be computed.        *)
(* Display strings (alias, instrument codes) are plain strings.            *)
(***************************************************************************)
EXTENDS Integers, Sequences, FiniteSets, TLC

VARIABLES
    dirs,           \* directories that exist (set of paths)
    files,          \* regular files: path -> content
    last,           \* the last call on the store and what it returned
    written,        \* history: (trade_date, selector_name) -> record of the
                    \*          most recent save_result that returned True
    phase,          \* position of run_selection: idle / running / returned
                    \*          / raised (an exception left the function)
    runNo,          \* how many calls of run_selection have been started
    trade_date_str, \* the run's trade date
    cfgs,           \* the run's configuration list
    use_cache,      \* the run's use_cache flag
    save_result_flag, \* the run's save_result flag
    idx,            \* number of list entries the loop has processed
    results,        \* the run's result list
    events,         \* history: what happened for each processed entry
    prev,           \* history: the previous call's output and events
    ops,            \* number of direct calls on the store so far
    probe,          \* the last two address resolutions (SpecAddr)
    entry,          \* the arguments and data directory of a call of
                    \*          run_selection and how its prelude ended
    listing,        \* the last listing call on the store and its result
    reqs            \* the POST /select requests the server has received

vars == <<dirs, files, last, written, phase, runNo, trade_date_str, cfgs,
          use_cache, save_result_flag, idx, results, events, prev,
          ops, probe, entry, listing, reqs>>

auxVars == <<probe, entry, listing, reqs>>

storeVars == <<dirs, files, last, written, ops>>
runVars == <<phase, runNo, trade_date_str, cfgs, use_cache, save_result_flag,
             idx, results, events, prev>>

(***************************************************************************)
(* Bounds                                                                  *)
(***************************************************************************)
MaxCfgs == 3        \* longest configuration list of a run
MaxCachedCfgs == 1  \* longest configuration list of a run on a preloaded
                    \* store (SpecCached)
MaxPuts == 1        \* direct save_result calls before a run (SpecCached)
MaxStoreOps == 3    \* store calls in a behaviour of SpecStore
MaxNameLen == 2     \* longest string given to get_result_path (SpecAddr)

(***************************************************************************)
(* Values                                                                  *)
(***************************************************************************)
None == [kind |-> "None"]

D1 == <<"2","0","2","4","-","0","1","-","1","0">>
D2 == <<"2","0","2","4","-","0","1","-","1","2">>
D3 == <<"2","0","2","4","-","0","1","-","1","1">>
Dates == {D1, D2}

ClassX == <<"X">>
ClassY == <<"Y">>
Classes == {ClassX, ClassY}

Aliases == {"A", "B"}

DotJson == <<".","j","s","o","n">>

\* the strings SpecAddr resolves: every string over NameChars up to
\* MaxNameLen, the current directory, and the trade dates
NameChars == {"a", "/"}
Names ==
    UNION {[1..n -> NameChars] : n \in 0..MaxNameLen} \cup {<<".">>, D1, D2}

(***************************************************************************)
(* pathlib: Path(a) / b                                                    *)
(***************************************************************************)
KeepPart(c) == c # <<>> /\ c # <<".">>

RECURSIVE SplitParts(_, _, _)
SplitParts(s, cur, acc) ==
    IF s = <<>>
    THEN IF KeepPart(cur) THEN Append(acc, cur) ELSE acc
    ELSE IF Head(s) = "/"
         THEN SplitParts(Tail(s), <<>>,
                         IF KeepPart(cur) THEN Append(acc, cur) ELSE acc)
         ELSE SplitParts(Tail(s), Append(cur, Head(s)), acc)

Parts(s) == SplitParts(s, <<>>, <<>>)

\* the root of a POSIX path string: "", "/" or "//" (exactly two slashes)
Root(s) ==
    IF Len(s) >= 1 /\ s[1] = "/"
    THEN IF Len(s) >= 2 /\ s[2] = "/" /\ ~(Len(s) >= 3 /\ s[3] = "/")
         THEN "//"
         ELSE "/"
    ELSE ""

PathJoin(p, s) ==
    IF Root(s) # ""
    THEN [root |-> Root(s), parts |-> Parts(s)]
    ELSE [root |-> p.root, parts |-> p.parts \o Parts(s)]

\* DEFAULT_RESULT_DIR = Path("./result")
result_dir == [root |-> "", parts |-> << <<"r","e","s","u","l","t">> >>]

DateDir(trade_date) == PathJoin(result_dir, trade_date)

\* a variant that leaves the date partition out of the location
get_result_path_flat(trade_date, selector_name) ==
    PathJoin(result_dir, selector_name \o DotJson)

\* a variant that keeps the records of every date in one partition
get_result_path_one_partition(trade_date, selector_name) ==
    PathJoin(DateDir(D1), selector_name \o DotJson)

\* the location get_result_path returns
get_result_path(trade_date, selector_name) ==
    PathJoin(DateDir(trade_date), selector_name \o DotJson)

ResultPath(trade_date, selector_name) ==
    get_result_path(trade_date, selector_name)

Parent(p) ==
    IF p.parts = <<>> THEN p
    ELSE [root |-> p.root, parts |-> SubSeq(p.parts, 1, Len(p.parts) - 1)]

\* p and every path above it
Ancestors(p) ==
    {[root |-> p.root, parts |-> SubSeq(p.parts, 1, k)] : k \in 0..Len(p.parts)}

\* date_dir.mkdir(parents=True, exist_ok=True): raises when the path or a
\* path above it is a regular file
MkdirOk(fs, p) == \A a \in Ancestors(p) : a \notin DOMAIN fs

Mkdir(ds, p) == ds \cup Ancestors(p)

(***************************************************************************)
(* StockSelectionResult and its JSON form                                  *)
(***************************************************************************)
Dict(m) == [kind |-> "dict", map |-> m]
JsonNull == [kind |-> "null"]

\* what a strategy can return: the picks and last_scores
PlainPayload == [picks |-> <<"s1">>, scores |-> None]
ScoredPayload ==
    [picks |-> <<"s2", "s1">>, scores |-> Dict([k \in {"s1"} |-> 7])]
Payloads == {PlainPayload, ScoredPayload}

\* the StockSelectionResult values a caller can hand to save_result: count
\* is a field of its own, which no validator ties to selected_stocks
Records ==
    { [selector_name |-> c, alias |-> a, trade_date |-> d,
       selected_stocks |-> p.picks, scores |-> p.scores,
       count |-> IF good THEN Len(p.picks) ELSE 0] :
      c \in Classes, a \in Aliases, d \in Dates, p \in Payloads,
      good \in BOOLEAN }

WellCounted(r) == r.count = Len(r.selected_stocks)

\* a variant that writes absent scores as an empty object
DumpNullAsEmpty(r) ==
    << <<"selector_name", r.selector_name>>,
       <<"alias", r.alias>>,
       <<"trade_date", r.trade_date>>,
       <<"selected_stocks", r.selected_stocks>>,
       <<"scores", IF r.scores = None THEN Dict(<<>>) ELSE r.scores>>,
       <<"count", r.count>> >>

\* result.dict() written by json.dump: the members in field order
Dump(r) ==
    << <<"selector_name", r.selector_name>>,
       <<"alias", r.alias>>,
       <<"trade_date", r.trade_date>>,
       <<"selected_stocks", r.selected_stocks>>,
       <<"scores", IF r.scores = None THEN JsonNull ELSE r.scores>>,
       <<"count", r.count>> >>

\* open("w") has emptied the file and json.dump did not finish: whatever
\* prefix is on disk, json.load rejects it
Partial == [complete |-> FALSE, members |-> <<>>]

Document(r) == [complete |-> TRUE, members |-> Dump(r)]

HasKey(members, k) == \E i \in 1..Len(members) : members[i][1] = k

Member(members, k) ==
    members[CHOOSE i \in 1..Len(members) : members[i][1] = k][2]

RequiredKeys ==
    {"selector_name", "alias", "trade_date", "selected_stocks", "count"}

\* a variant that reads what it can and fills the rest with defaults
ParseLenient(content) ==
    [selector_name |-> IF HasKey(content.members, "selector_name")
                       THEN Member(content.members, "selector_name")
                       ELSE <<>>,
     alias |-> IF HasKey(content.members, "alias")
               THEN Member(content.members, "alias") ELSE "",
     trade_date |-> IF HasKey(content.members, "trade_date")
                    THEN Member(content.members, "trade_date") ELSE <<>>,
     selected_stocks |-> IF HasKey(content.members, "selected_stocks")
                         THEN Member(content.members, "selected_stocks")
                         ELSE <<>>,
     scores |-> IF ~HasKey(content.members, "scores") THEN None
                ELSE IF Member(content.members, "scores") = JsonNull
                     THEN None
                     ELSE Member(content.members, "scores"),
     count |-> IF HasKey(content.members, "count")
               THEN Member(content.members, "count") ELSE 0]

\* json.load followed by StockSelectionResult(**result_dict); None stands
\* for the exception load_result catches
Parse(content) ==
    IF ~content.complete THEN None
    ELSE IF \E k \in RequiredKeys : ~HasKey(content.members, k) THEN None
    ELSE [selector_name |-> Member(content.members, "selector_name"),
          alias |-> Member(content.members, "alias"),
          trade_date |-> Member(content.members, "trade_date"),
          selected_stocks |-> Member(content.members, "selected_stocks"),
          scores |-> IF ~HasKey(content.members, "scores") THEN None
                     ELSE IF Member(content.members, "scores") = JsonNull
                          THEN None
                          ELSE Member(content.members, "scores"),
          count |-> Member(content.members, "count")]

(***************************************************************************)
(* ResultStorage                                                           *)
(***************************************************************************)
SetFile(fs, p, c) == [q \in (DOMAIN fs) \cup {p} |-> IF q = p THEN c ELSE fs[q]]

\* where a save_result can fail: nowhere, in get_result_path's mkdir, in
\* open("w"), or in json.dump after open("w") has emptied the file
PutFaults == {"none", "mkdir", "open", "write"}

\* save_result: the status it returns and the file system it leaves
save_result(ds, fs, result, fault) ==
    LET date_dir == DateDir(result.trade_date)
        path == ResultPath(result.trade_date, result.selector_name)
    IN  IF fault = "mkdir" \/ ~MkdirOk(fs, date_dir)
        THEN [ok |-> FALSE, dirs |-> ds, files |-> fs]
        ELSE IF fault = "open" \/ Parent(path) \notin Mkdir(ds, date_dir)
                \/ path \in Mkdir(ds, date_dir)
        THEN [ok |-> FALSE, dirs |-> Mkdir(ds, date_dir), files |-> fs]
        ELSE IF fault = "write"
        THEN [ok |-> FALSE, dirs |-> Mkdir(ds, date_dir),
              files |-> SetFile(fs, path, Partial)]
        ELSE [ok |-> TRUE, dirs |-> Mkdir(ds, date_dir),
              files |-> SetFile(fs, path, Document(result))]

\* load_result: the record (or None) it returns and the directories it leaves
load_result(ds, fs, trade_date, selector_name) ==
    LET date_dir == DateDir(trade_date)
        path == ResultPath(trade_date, selector_name)
    IN  IF ~MkdirOk(fs, date_dir)
        THEN [ret |-> None, dirs |-> ds]
        ELSE IF path \notin DOMAIN fs
        THEN [ret |-> None, dirs |-> Mkdir(ds, date_dir)]
        ELSE [ret |-> Parse(fs[path]), dirs |-> Mkdir(ds, date_dir)]

\* the addresses the history follows
Keys == (Dates \cup {D3}) \X Classes

\* the records callers save in SpecStore
StoreRecords == {r \in Records : WellCounted(r)}

KeyOf(r) == <<r.trade_date, r.selector_name>>

NoCall == [op |-> "none", key |-> <<D1, ClassX>>, rec |-> None, ok |-> FALSE,
           follows |-> None]

\* the history kept for a save_result that returned True
NoteSaved(w, result, ok) ==
    IF ok THEN [w EXCEPT ![KeyOf(result)] = result] ELSE w

\* a caller saves a record
Put(r, fault) ==
    \E out \in {save_result(dirs, files, r, fault)} :
        /\ dirs' = out.dirs
        /\ files' = out.files
        /\ written' = NoteSaved(written, r, out.ok)
        /\ last' = [op |-> "save_result", key |-> KeyOf(r), rec |-> r,
                    ok |-> out.ok, follows |-> None]

\* a caller loads the record of an address
Get(d, s) ==
    \E out \in {load_result(dirs, files, d, s)} :
        /\ dirs' = out.dirs
        /\ files' = files
        /\ written' = written
        /\ last' = [op |-> "load_result", key |-> <<d, s>>, rec |-> out.ret,
                    ok |-> out.ret # None,
                    follows |-> IF last.op = "save_result" /\ last.ok
                                   /\ last.key = <<d, s>>
                                THEN last.rec ELSE None]

(***************************************************************************)
(* run_selection                                                           *)
(***************************************************************************)
\* the configuration entries a run is given
Configs ==
    { [class |-> ClassX, alias |-> "A", activate |-> TRUE,  params |-> "ok"],
      [class |-> ClassX, alias |-> "B", activate |-> TRUE,  params |-> "ok"],
      [class |-> ClassY, alias |-> "A", activate |-> TRUE,  params |-> "ok"],
      [class |-> ClassY, alias |-> "B", activate |-> FALSE, params |-> "ok"],
      [class |-> ClassX, alias |-> "A", activate |-> TRUE,  params |-> "bad"] }

ConfigLists == UNION {[1..n -> Configs] : n \in 0..MaxCfgs}

ShortConfigLists == UNION {[1..n -> Configs] : n \in 0..MaxCachedCfgs}

\* the date a run is evaluated on
RunDates == {D1}

\* the records callers save before a run; the records of other dates are
\* neither read nor written by the run, and the run copies a record's
\* payload without looking into it
PreloadRecords ==
    {r \in Records : r.trade_date \in RunDates /\ r.scores # None}

\* selector.select(trade_date, data) on the run's data: what it returns,
\* and whether the selector has last_scores, follows from the configured
\* strategy
Returns(cfg) == IF cfg.alias = "A" THEN PlainPayload ELSE ScoredPayload

\* whether the call raises is left open
SelectRaises == BOOLEAN

\* a variant that tests for a missing key instead of False
IsInactiveWhenMissing(cfg) == "activate" \notin DOMAIN cfg

\* cfg.get("activate", True) is False
IsInactive(cfg) == cfg.activate = FALSE

\* instantiate_selector(cfg): (alias, selector), or it raises
instantiate_selector(cfg) ==
    [ok |-> cfg.params = "ok", alias |-> cfg.alias]

\* a variant that forgets to copy scores
FromCachedNoScores(cached_result) ==
    [selector_name |-> cached_result.selector_name,
     alias |-> cached_result.alias,
     trade_date |-> cached_result.trade_date,
     selected_stocks |-> cached_result.selected_stocks,
     scores |-> None,
     count |-> cached_result.count]

\* the API model built from a cached storage record, field by field
FromCached(cached_result) ==
    [selector_name |-> cached_result.selector_name,
     alias |-> cached_result.alias,
     trade_date |-> cached_result.trade_date,
     selected_stocks |-> cached_result.selected_stocks,
     scores |-> cached_result.scores,
     count |-> cached_result.count]

\* the API model built after a successful select
FreshResult(selector_name, alias, date, sel) ==
    [selector_name |-> selector_name,
     alias |-> alias,
     trade_date |-> date,
     selected_stocks |-> sel.picks,
     scores |-> sel.scores,
     count |-> Len(sel.picks)]

\* the storage model built from the API model, field by field
StorageResult(result) ==
    [selector_name |-> result.selector_name,
     alias |-> result.alias,
     trade_date |-> result.trade_date,
     selected_stocks |-> result.selected_stocks,
     scores |-> result.scores,
     count |-> result.count]

\* a variant that never asks the store
CacheLookupNever(uc, ds, fs, date, selector_name) ==
    [asked |-> FALSE, ret |-> None, dirs |-> ds]

\* a variant that asks the store whatever use_cache is
CacheLookupAlways(uc, ds, fs, date, selector_name) ==
    [asked |-> TRUE] @@ load_result(ds, fs, date, selector_name)

\* if use_cache: storage.load_result(trade_date_str, selector_name)
CacheLookup(uc, ds, fs, date, selector_name) ==
    IF uc
    THEN [asked |-> TRUE] @@ load_result(ds, fs, date, selector_name)
    ELSE [asked |-> FALSE, ret |-> None, dirs |-> ds]

\* a variant that puts the new result in front
PrependAndSave(res, ds, fs, sr, result, fault) ==
    IF sr
    THEN LET out == save_result(ds, fs, StorageResult(result), fault)
         IN  [results |-> <<result>> \o res, dirs |-> out.dirs,
              files |-> out.files, saved |-> IF out.ok THEN "ok" ELSE "failed"]
    ELSE [results |-> <<result>> \o res, dirs |-> ds, files |-> fs,
          saved |-> "no"]

\* a variant that saves first and appends only what was saved
SaveThenAppend(res, ds, fs, sr, result, fault) ==
    IF sr
    THEN LET out == save_result(ds, fs, StorageResult(result), fault)
         IN  [results |-> IF out.ok THEN Append(res, result) ELSE res,
              dirs |-> out.dirs, files |-> out.files,
              saved |-> IF out.ok THEN "ok" ELSE "failed"]
    ELSE [results |-> Append(res, result), dirs |-> ds, files |-> fs,
          saved |-> "no"]

\* a variant that saves whatever save_result is
AppendAndSaveAlways(res, ds, fs, sr, result, fault) ==
    LET out == save_result(ds, fs, StorageResult(result), fault)
    IN  [results |-> Append(res, result), dirs |-> out.dirs,
         files |-> out.files, saved |-> IF out.ok THEN "ok" ELSE "failed"]

\* results.append(result) followed by: if save_result: storage.save_result
AppendAndSave(res, ds, fs, sr, result, fault) ==
    IF sr
    THEN LET out == save_result(ds, fs, StorageResult(result), fault)
         IN  [results |-> Append(res, result), dirs |-> out.dirs,
              files |-> out.files, saved |-> IF out.ok THEN "ok" ELSE "failed"]
    ELSE [results |-> Append(res, result), dirs |-> ds, files |-> fs,
          saved |-> "no"]

\* a variant without the except clause: the exception leaves the loop
InvokeAndStoreEscaping(res, ds, fs, sr, name, alias, date, sel, raises, fault) ==
    IF raises
    THEN [results |-> res, dirs |-> ds, files |-> fs, saved |-> "no",
          escaped |-> TRUE]
    ELSE [escaped |-> FALSE] @@
         AppendAndSave(res, ds, fs, sr,
                       FreshResult(name, alias, date, sel), fault)

\* the try around select: when select raises, the except clause logs and
\* continues, so nothing is appended and nothing escapes the loop
InvokeAndStore(res, ds, fs, sr, name, alias, date, sel, raises, fault) ==
    IF raises
    THEN [results |-> res, dirs |-> ds, files |-> fs, saved |-> "no",
          escaped |-> FALSE]
    ELSE [escaped |-> FALSE] @@
         AppendAndSave(res, ds, fs, sr,
                       FreshResult(name, alias, date, sel), fault)

NoEvent(kind) ==
    [kind |-> kind, inst |-> FALSE, asked |-> FALSE, cached |-> None,
     invoked |-> FALSE, saved |-> "no"]

\* a variant without the try around instantiate_selector: its exception
\* leaves the loop
IterationInstEscaping(res, ds, fs, uc, sr, date, cfg, raises, fault) ==
    IF IsInactive(cfg)
    THEN [results |-> res, dirs |-> ds, files |-> fs, escaped |-> FALSE,
          event |-> NoEvent("inactive")]
    ELSE IF ~instantiate_selector(cfg).ok
    THEN [results |-> res, dirs |-> ds, files |-> fs, escaped |-> TRUE,
          event |-> [NoEvent("inst_failed") EXCEPT !.inst = TRUE]]
    ELSE LET alias == instantiate_selector(cfg).alias
             selector_name == cfg.class
             look == CacheLookup(uc, ds, fs, date, selector_name)
         IN  IF look.ret # None
             THEN [results |-> Append(res, FromCached(look.ret)),
                   dirs |-> look.dirs, files |-> fs, escaped |-> FALSE,
                   event |-> [NoEvent("hit") EXCEPT !.inst = TRUE,
                                 !.asked = TRUE, !.cached = look.ret]]
             ELSE LET out == InvokeAndStore(res, look.dirs, fs, sr,
                                            selector_name, alias, date,
                                            Returns(cfg), raises, fault)
                  IN  [results |-> out.results, dirs |-> out.dirs,
                       files |-> out.files, escaped |-> out.escaped,
                       event |-> [NoEvent(IF raises THEN "select_raised"
                                          ELSE "fresh")
                                  EXCEPT !.inst = TRUE, !.asked = look.asked,
                                         !.invoked = TRUE,
                                         !.saved = out.saved]]

\* a variant in which an entry taken from the store is given the alias of
\* the configuration at hand
IterationHitOwnAlias(res, ds, fs, uc, sr, date, cfg, raises, fault) ==
    IF IsInactive(cfg)
    THEN [results |-> res, dirs |-> ds, files |-> fs, escaped |-> FALSE,
          event |-> NoEvent("inactive")]
    ELSE IF ~instantiate_selector(cfg).ok
    THEN [results |-> res, dirs |-> ds, files |-> fs, escaped |-> FALSE,
          event |-> [NoEvent("inst_failed") EXCEPT !.inst = TRUE]]
    ELSE LET alias == instantiate_selector(cfg).alias
             selector_name == cfg.class
             look == CacheLookup(uc, ds, fs, date, selector_name)
         IN  IF look.ret # None
             THEN [results |-> Append(res, [FromCached(look.ret)
                                        EXCEPT !.alias = alias]),
                   dirs |-> look.dirs, files |-> fs, escaped |-> FALSE,
                   event |-> [NoEvent("hit") EXCEPT !.inst = TRUE,
                                 !.asked = TRUE, !.cached = look.ret]]
             ELSE LET out == InvokeAndStore(res, look.dirs, fs, sr,
                                            selector_name, alias, date,
                                            Returns(cfg), raises, fault)
                  IN  [results |-> out.results, dirs |-> out.dirs,
                       files |-> out.files, escaped |-> out.escaped,
                       event |-> [NoEvent(IF raises THEN "select_raised"
                                          ELSE "fresh")
                                  EXCEPT !.inst = TRUE, !.asked = look.asked,
                                         !.invoked = TRUE,
                                         !.saved = out.saved]]

\* one iteration of "for cfg in cfgs": the new result list, the file system
\* it leaves, and what happened
Iteration(res, ds, fs, uc, sr, date, cfg, raises, fault) ==
    IF IsInactive(cfg)
    THEN [results |-> res, dirs |-> ds, files |-> fs, escaped |-> FALSE,
          event |-> NoEvent("inactive")]
    ELSE IF ~instantiate_selector(cfg).ok
    THEN [results |-> res, dirs |-> ds, files |-> fs, escaped |-> FALSE,
          event |-> [NoEvent("inst_failed") EXCEPT !.inst = TRUE]]
    ELSE LET alias == instantiate_selector(cfg).alias
             selector_name == cfg.class
             look == CacheLookup(uc, ds, fs, date, selector_name)
         IN  IF look.ret # None
             THEN [results |-> Append(res, FromCached(look.ret)),
                   dirs |-> look.dirs, files |-> fs, escaped |-> FALSE,
                   event |-> [NoEvent("hit") EXCEPT !.inst = TRUE,
                                 !.asked = TRUE, !.cached = look.ret]]
             ELSE LET out == InvokeAndStore(res, look.dirs, fs, sr,
                                            selector_name, alias, date,
                                            Returns(cfg), raises, fault)
                  IN  [results |-> out.results, dirs |-> out.dirs,
                       files |-> out.files, escaped |-> out.escaped,
                       event |-> [NoEvent(IF raises THEN "select_raised"
                                          ELSE "fresh")
                                  EXCEPT !.inst = TRUE, !.asked = look.asked,
                                         !.invoked = TRUE,
                                         !.saved = out.saved]]

NoPrev == [out |-> <<>>, events |-> <<>>]

\* a caller saves a record before any run
Preload ==
    /\ phase = "idle"
    /\ runNo = 0
    /\ ops < MaxPuts
    /\ \E r \in PreloadRecords, fault \in PutFaults :
         \E out \in {save_result(dirs, files, r, fault)} :
            /\ dirs' = out.dirs
            /\ files' = out.files
            /\ written' = NoteSaved(written, r, out.ok)
    /\ ops' = ops + 1
    /\ UNCHANGED <<runVars, last, auxVars>>

\* run_selection is called with one of the given configuration lists
StartRun(lists) ==
    /\ phase = "idle"
    /\ runNo = 0
    /\ \E date \in RunDates, list \in lists, uc \in BOOLEAN, sr \in BOOLEAN :
          /\ trade_date_str' = date
          /\ cfgs' = list
          /\ use_cache' = uc
          /\ save_result_flag' = sr
    /\ phase' = "running"
    /\ runNo' = 1
    /\ idx' = 0
    /\ results' = <<>>
    /\ events' = <<>>
    /\ UNCHANGED <<prev, storeVars, auxVars>>

\* the loop body runs for the next entry of cfgs
ProcessConfig ==
    /\ phase = "running"
    /\ idx < Len(cfgs)
    /\ \E raises \in SelectRaises, fault \in PutFaults :
         \E out \in {Iteration(results, dirs, files, use_cache,
                               save_result_flag, trade_date_str,
                               cfgs[idx + 1], raises, fault)} :
            /\ results' = out.results
            /\ dirs' = out.dirs
            /\ files' = out.files
            /\ events' = Append(events, out.event)
            /\ written' = IF out.event.saved = "ok"
                          THEN NoteSaved(written,
                                         out.results[Len(out.results)], TRUE)
                          ELSE written
            /\ phase' = IF out.escaped THEN "raised" ELSE phase
    /\ idx' = idx + 1
    /\ UNCHANGED <<runNo, trade_date_str, cfgs, use_cache,
                   save_result_flag, prev, last, ops, auxVars>>

\* return results
FinishRun ==
    /\ phase = "running"
    /\ idx = Len(cfgs)
    /\ phase' = "returned"
    /\ UNCHANGED <<runNo, trade_date_str, cfgs, use_cache, save_result_flag,
                   idx, results, events, prev, storeVars, auxVars>>

\* run_selection is called a second time with the same arguments
Rerun ==
    /\ phase = "returned"
    /\ runNo = 1
    /\ phase' = "running"
    /\ runNo' = 2
    /\ prev' = [out |-> results, events |-> events]
    /\ idx' = 0
    /\ results' = <<>>
    /\ events' = <<>>
    /\ UNCHANGED <<trade_date_str, cfgs, use_cache, save_result_flag,
                   storeVars, auxVars>>

\* a caller saves a record
StorePut ==
    /\ ops < MaxStoreOps
    /\ \E r \in StoreRecords, fault \in PutFaults : Put(r, fault)
    /\ ops' = ops + 1
    /\ UNCHANGED <<runVars, auxVars>>

\* a caller loads the record of an address
StoreGet ==
    /\ ops < MaxStoreOps
    /\ \E d \in Dates, s \in Classes : Get(d, s)
    /\ ops' = ops + 1
    /\ UNCHANGED <<runVars, auxVars>>

\* a caller resolves an address, and then another one
Resolve ==
    /\ probe.n < 2
    /\ \E d \in Names, s \in Names :
         /\ probe' = [n |-> probe.n + 1,
                      key1 |-> probe.key2, loc1 |-> probe.loc2,
                      key2 |-> <<d, s>>, loc2 |-> get_result_path(d, s)]
         /\ dirs' = IF MkdirOk(files, DateDir(d))
                    THEN Mkdir(dirs, DateDir(d)) ELSE dirs
    /\ UNCHANGED <<files, last, written, ops, runVars, entry, listing, reqs>>

(***************************************************************************)
(* run_selection: loading the data and resolving the trade date            *)
(***************************************************************************)
\* instrument codes, and the days (of January 2024) their series hold
Codes == {"c1", "c2", "c3"}
Days == {10, 11, 12}

\* the date column of a csv file: a set of days
SeriesSet == {{10}, {10, 11}, {10, 12}, {11, 12}}

NoCsv == [kind |-> "missing"]
Csv(dates) == [kind |-> "csv", dates |-> dates]
CsvStates == {NoCsv} \cup {Csv(s) : s \in SeriesSet}

\* the data directory: absent, or holding <code>.csv files
DataDirs ==
    {[exists |-> FALSE, csv |-> [c \in Codes |-> NoCsv]]}
    \cup {[exists |-> TRUE, csv |-> f] : f \in [Codes -> CsvStates]}

\* the tickers argument: None or a list of codes
TickerList(codes) == [kind |-> "list", codes |-> codes]
TickerArgs ==
    {None, TickerList({}), TickerList({"c1"}), TickerList({"c1", "c2"})}

\* the trade_date argument: None or a Timestamp
Timestamp(day) == [kind |-> "Timestamp", day |-> day]
TradeDateArgs == {None, Timestamp(11)}

\* [f.stem for f in data_dir.glob("*.csv")]
CsvStems(data_dir) == {c \in Codes : data_dir.csv[c] # NoCsv}

\* load_data(data_dir, codes): the series of the codes that have a file
load_data(data_dir, codes) ==
    [c \in {x \in codes : x \in Codes /\ data_dir.csv[x] # NoCsv} |->
        data_dir.csv[c].dates]

\* max(...) of a non-empty collection of days
SetMax(S) == CHOOSE x \in S : \A y \in S : y <= x

\* a variant that takes the latest date of one series
resolve_trade_date_of_one(trade_date, data) ==
    IF trade_date = None
    THEN SetMax(data[CHOOSE c \in DOMAIN data : TRUE])
    ELSE trade_date.day

\* trade_date = max(df["date"].max() for df in data.values()), or the
\* argument when it is given
resolve_trade_date(trade_date, data) ==
    IF trade_date = None
    THEN SetMax({SetMax(data[c]) : c \in DOMAIN data})
    ELSE trade_date.day

DigitChars == <<"0", "1", "2", "3", "4", "5", "6", "7", "8", "9">>

TwoDigits(n) == <<DigitChars[(n \div 10) + 1], DigitChars[(n % 10) + 1]>>

\* trade_date.strftime("%Y-%m-%d") for a day of January 2024
strftime(day) == <<"2", "0", "2", "4", "-", "0", "1", "-">> \o TwoDigits(day)

Raised(status) == [status |-> status, date |-> <<>>]

\* a variant without the check of the loaded data: max() of nothing raises
\* ValueError, which the endpoint turns into status 500
run_prelude_unchecked(data_dir, tickers, trade_date) ==
    IF ~data_dir.exists THEN Raised(404)
    ELSE LET codes == IF tickers = None THEN CsvStems(data_dir)
                      ELSE tickers.codes
         IN  IF codes = {} THEN Raised(400)
             ELSE LET data == load_data(data_dir, codes)
                  IN  IF DOMAIN data = {} /\ trade_date = None
                      THEN Raised(500)
                      ELSE [status |-> 200,
                            date |-> strftime(
                                resolve_trade_date(trade_date, data))]

\* run_selection up to trade_date_str: the HTTPException it raises, or 200
\* and the resolved trade date
run_prelude(data_dir, tickers, trade_date) ==
    IF ~data_dir.exists THEN Raised(404)
    ELSE LET codes == IF tickers = None THEN CsvStems(data_dir)
                      ELSE tickers.codes
         IN  IF codes = {} THEN Raised(400)
             ELSE LET data == load_data(data_dir, codes)
                  IN  IF DOMAIN data = {} THEN Raised(404)
                      ELSE [status |-> 200,
                            date |-> strftime(
                                resolve_trade_date(trade_date, data))]

NoEntry == [called |-> FALSE, data_dir |-> [exists |-> FALSE,
                                            csv |-> [c \in Codes |-> NoCsv]],
            tickers |-> None, trade_date |-> None, status |-> 200]

\* the configuration list of the runs that start from the data directory
EntryConfigs ==
    << [class |-> ClassX, alias |-> "A", activate |-> TRUE, params |-> "ok"] >>

\* run_selection is called: it raises, or it reaches the loop
Enter ==
    /\ phase = "idle"
    /\ runNo = 0
    /\ \E data_dir \in DataDirs, tickers \in TickerArgs,
          trade_date \in TradeDateArgs, uc \in BOOLEAN, sr \in BOOLEAN :
         \E out \in {run_prelude(data_dir, tickers, trade_date)} :
            /\ entry' = [called |-> TRUE, data_dir |-> data_dir,
                         tickers |-> tickers, trade_date |-> trade_date,
                         status |-> out.status]
            /\ phase' = IF out.status = 200 THEN "running" ELSE "raised"
            /\ trade_date_str' = IF out.status = 200 THEN out.date
                                 ELSE trade_date_str
            /\ use_cache' = uc
            /\ save_result_flag' = sr
    /\ cfgs' = EntryConfigs
    /\ runNo' = 1
    /\ idx' = 0
    /\ results' = <<>>
    /\ events' = <<>>
    /\ UNCHANGED <<prev, storeVars, probe, listing, reqs>>

(***************************************************************************)
(* ResultStorage: listings                                                 *)
(***************************************************************************)
MaxListOps == 3     \* store calls in a behaviour of SpecList

DFeb == <<"2","0","2","4","-","0","2","-","0","1">>
DLoose == <<"2","0","2","4","-","1","-","5">>
DNoDay == <<"2","0","2","4","-","0","2","-","3","0">>
NotADate == <<"n","o","t","-","a","-","d","a","t","e">>

\* the trade_date strings callers hand to the store in SpecList
ListNames == {D1, DFeb, DLoose, DNoDay, NotADate}

\* the characters of these strings in code point order, which is the order
\* sorted() compares strings by
CharOrder ==
    <<" ", "-", ".", "/", "0", "1", "2", "3", "4", "5", "6", "7", "8", "9",
      "X", "Y", "a", "d", "e", "j", "n", "o", "s", "t">>

Ord(c) == CHOOSE i \in 1..Len(CharOrder) : CharOrder[i] = c

\* a < b for Python strings
RECURSIVE StrLess(_, _)
StrLess(a, b) ==
    IF b = <<>> THEN FALSE
    ELSE IF a = <<>> THEN TRUE
    ELSE IF Head(a) = Head(b) THEN StrLess(Tail(a), Tail(b))
    ELSE Ord(Head(a)) < Ord(Head(b))

\* sorted(S)
RECURSIVE Sorted(_)
Sorted(S) ==
    IF S = {} THEN <<>>
    ELSE LET m == CHOOSE x \in S : \A y \in S : y = x \/ StrLess(x, y)
         IN  <<m>> \o Sorted(S \ {m})

\* sorted(S, reverse=True)
RECURSIVE SortedReverse(_)
SortedReverse(S) ==
    IF S = {} THEN <<>>
    ELSE LET m == CHOOSE x \in S : \A y \in S : y = x \/ StrLess(y, x)
         IN  <<m>> \o SortedReverse(S \ {m})

\* the fields of s between the occurrences of sep
RECURSIVE SplitOn(_, _, _, _)
SplitOn(s, sep, cur, acc) ==
    IF s = <<>> THEN Append(acc, cur)
    ELSE IF Head(s) = sep THEN SplitOn(Tail(s), sep, <<>>, Append(acc, cur))
    ELSE SplitOn(Tail(s), sep, Append(cur, Head(s)), acc)

IsDigitChar(c) == \E i \in 1..10 : DigitChars[i] = c

DigitVal(c) == (CHOOSE i \in 1..10 : DigitChars[i] = c) - 1

\* the number a field of digits (and blanks, which count as nothing) writes
RECURSIVE FieldVal(_, _)
FieldVal(f, acc) ==
    IF f = <<>> THEN acc
    ELSE IF IsDigitChar(Head(f))
         THEN FieldVal(Tail(f), 10 * acc + DigitVal(Head(f)))
         ELSE FieldVal(Tail(f), acc)

\* %Y: four digits
MatchesYear(f) == Len(f) = 4 /\ \A i \in 1..4 : IsDigitChar(f[i])

\* %m: 1[0-2] | 0[1-9] | [1-9]
MatchesMonth(f) ==
    \/ Len(f) = 2 /\ f[1] = "1" /\ f[2] \in {"0", "1", "2"}
    \/ Len(f) = 2 /\ f[1] = "0" /\ IsDigitChar(f[2]) /\ f[2] # "0"
    \/ Len(f) = 1 /\ IsDigitChar(f[1]) /\ f[1] # "0"

\* %d: 3[0-1] | [1-2]\d | 0[1-9] | [1-9] | blank [1-9]
MatchesDay(f) ==
    \/ Len(f) = 2 /\ f[1] = "3" /\ f[2] \in {"0", "1"}
    \/ Len(f) = 2 /\ f[1] \in {"1", "2"} /\ IsDigitChar(f[2])
    \/ Len(f) = 2 /\ f[1] \in {"0", " "} /\ IsDigitChar(f[2]) /\ f[2] # "0"
    \/ Len(f) = 1 /\ IsDigitChar(f[1]) /\ f[1] # "0"

IsLeap(y) == (y % 4 = 0 /\ y % 100 # 0) \/ y % 400 = 0

DaysInMonth(y, m) ==
    IF m = 2 THEN (IF IsLeap(y) THEN 29 ELSE 28)
    ELSE IF m \in {4, 6, 9, 11} THEN 30 ELSE 31

\* datetime.strptime(name, "%Y-%m-%d") does not raise ValueError
strptime_ok(name) ==
    LET f == SplitOn(name, "-", <<>>, <<>>)
    IN  /\ Len(f) = 3
        /\ MatchesYear(f[1]) /\ MatchesMonth(f[2]) /\ MatchesDay(f[3])
        /\ FieldVal(f[1], 0) >= 1
        /\ FieldVal(f[3], 0) <= DaysInMonth(FieldVal(f[1], 0),
                                            FieldVal(f[2], 0))

\* path.name
Name(p) == p.parts[Len(p.parts)]

\* the entries of directory p that are directories, and those that are files
SubDirs(ds, p) == {q \in ds : q # p /\ Parent(q) = p}
FilesIn(fs, p) == {q \in DOMAIN fs : q # p /\ Parent(q) = p}

\* list_available_dates
list_available_dates(ds, fs) ==
    IF result_dir \notin ds /\ result_dir \notin DOMAIN fs THEN <<>>
    ELSE SortedReverse({Name(q) : q \in {x \in SubDirs(ds, result_dir) :
                                            strptime_ok(Name(x))}})

EndsWithJson(n) ==
    Len(n) >= Len(DotJson)
    /\ SubSeq(n, Len(n) - Len(DotJson) + 1, Len(n)) = DotJson

\* path.stem: the name without its last suffix; a name that is only a
\* suffix has none
Stem(n) ==
    IF EndsWithJson(n) /\ Len(n) > Len(DotJson)
    THEN SubSeq(n, 1, Len(n) - Len(DotJson))
    ELSE n

\* date_dir.glob("*.json")
GlobJson(ds, fs, p) ==
    {q \in SubDirs(ds, p) \cup FilesIn(fs, p) : EndsWithJson(Name(q))}

\* list_available_selectors
list_available_selectors(ds, fs, trade_date) ==
    LET date_dir == DateDir(trade_date)
    IN  IF date_dir \notin ds /\ date_dir \notin DOMAIN fs THEN <<>>
        ELSE Sorted({Stem(Name(q)) : q \in GlobJson(ds, fs, date_dir)})

\* result_exists: get_result_path (and its mkdir) followed by exists()
result_exists(ds, fs, trade_date, selector_name) ==
    LET date_dir == DateDir(trade_date)
        path == ResultPath(trade_date, selector_name)
    IN  IF ~MkdirOk(fs, date_dir)
        THEN [raised |-> TRUE, ret |-> FALSE, dirs |-> ds]
        ELSE [raised |-> FALSE,
              ret |-> path \in DOMAIN fs \/ path \in Mkdir(ds, date_dir),
              dirs |-> Mkdir(ds, date_dir)]

\* the selector_names argument: None or a list
NameList(items) == [kind |-> "list", items |-> items]
NameArgs ==
    {None, NameList(<<>>), NameList(<<ClassX>>), NameList(<<ClassY, ClassX>>)}

\* "if selector_names:" holds for a list that is not empty
Truthy(selector_names) ==
    selector_names # None /\ Len(selector_names.items) > 0

\* load_all_results: the dictionary it returns and the directories it leaves
load_all_results(ds, fs, trade_date, selector_names) ==
    LET date_dir == DateDir(trade_date)
        names == IF Truthy(selector_names)
                 THEN {selector_names.items[i] :
                          i \in 1..Len(selector_names.items)}
                 ELSE {Stem(Name(q)) : q \in GlobJson(ds, fs, date_dir)}
        found == {n \in names : load_result(ds, fs, trade_date, n).ret # None}
    IN  IF date_dir \notin ds /\ date_dir \notin DOMAIN fs
        THEN [ret |-> [n \in {} |-> None], dirs |-> ds]
        ELSE [ret |-> [n \in found |->
                          load_result(ds, fs, trade_date, n).ret],
              dirs |-> IF names = {} \/ ~MkdirOk(fs, date_dir) THEN ds
                       ELSE Mkdir(ds, date_dir)]

\* the records callers save in SpecList
ListRecords ==
    { [selector_name |-> c, alias |-> "A", trade_date |-> d,
       selected_stocks |-> PlainPayload.picks, scores |-> PlainPayload.scores,
       count |-> Len(PlainPayload.picks)] : c \in Classes, d \in ListNames }

NoListing == [op |-> "none", date |-> <<>>, names |-> None, ret |-> <<>>]

ListFrame == UNCHANGED <<runVars, last, written, probe, entry, reqs>>

\* a caller saves a record (the history of SpecStore is not kept here)
ListPut ==
    /\ ops < MaxListOps
    /\ \E r \in ListRecords, fault \in PutFaults :
         \E out \in {save_result(dirs, files, r, fault)} :
            /\ dirs' = out.dirs
            /\ files' = out.files
    /\ ops' = ops + 1
    /\ listing' = NoListing
    /\ ListFrame

\* a caller loads the record of an address
ListGet ==
    /\ ops < MaxListOps
    /\ \E d \in ListNames, s \in Classes :
         dirs' = load_result(dirs, files, d, s).dirs
    /\ ops' = ops + 1
    /\ listing' = NoListing
    /\ UNCHANGED files
    /\ ListFrame

\* a caller asks whether an address has a record
ListExists ==
    /\ ops < MaxListOps
    /\ \E d \in ListNames, s \in Classes :
         dirs' = result_exists(dirs, files, d, s).dirs
    /\ ops' = ops + 1
    /\ listing' = NoListing
    /\ UNCHANGED files
    /\ ListFrame

\* a caller loads the records of a date
ListLoadAll ==
    /\ ops < MaxListOps
    /\ \E d \in ListNames, names \in NameArgs :
         \E out \in {load_all_results(dirs, files, d, names)} :
            /\ dirs' = out.dirs
            /\ listing' = [op |-> "load_all_results", date |-> d,
                           names |-> names, ret |-> out.ret]
    /\ ops' = ops + 1
    /\ UNCHANGED files
    /\ ListFrame

\* a caller lists the dates
ListDates ==
    /\ ops < MaxListOps
    /\ listing' = [op |-> "list_available_dates", date |-> <<>>,
                   names |-> None, ret |-> list_available_dates(dirs, files)]
    /\ ops' = ops + 1
    /\ UNCHANGED <<dirs, files>>
    /\ ListFrame

\* a caller lists the selectors of a date
ListSelectors ==
    /\ ops < MaxListOps
    /\ \E d \in ListNames :
         listing' = [op |-> "list_available_selectors", date |-> d,
                     names |-> None,
                     ret |-> list_available_selectors(dirs, files, d)]
    /\ ops' = ops + 1
    /\ UNCHANGED <<dirs, files>>
    /\ ListFrame

(***************************************************************************)
(* POST /select: requests on one event loop                                *)
(***************************************************************************)
Requests == {1, 2}

\* where a request is: not received, waiting for the event loop, in
\* run_selection before the save, between open("w") and the end of
\* json.dump, or answered
NoRequest ==
    [pc |-> "none", class |-> ClassX, alias |-> "A", use_cache |-> TRUE]

NoReqs == [r \in Requests |-> NoRequest]

\* a request's handler is between its first and its last statement
InHandler(q) == reqs[q].pc \in {"running", "writing"}

\* a variant in which the endpoint is a plain function: the server runs it
\* in a thread of its pool, whatever other requests are doing
LoopIdleThreaded(r) == TRUE

\* select_stocks_post is a coroutine that awaits nothing: the event loop
\* enters it only when no other handler is running, and leaves it when it
\* has returned
LoopIdle(r) == \A q \in Requests \ {r} : ~InHandler(q)

\* the record the request's run saves: one configuration, trade date D1
RecordOf(q) ==
    StorageResult(FreshResult(reqs[q].class, reqs[q].alias, D1,
                              IF reqs[q].alias = "A" THEN PlainPayload
                              ELSE ScoredPayload))

ReqFrame == UNCHANGED <<runVars, last, written, ops, probe, entry, listing>>

\* the server receives a request for trade date D1 with one configuration
Receive(r) ==
    /\ reqs[r].pc = "none"
    /\ \E c \in Classes, a \in Aliases, uc \in BOOLEAN :
         reqs' = [reqs EXCEPT ![r] = [pc |-> "pending", class |-> c,
                                      alias |-> a, use_cache |-> uc]]
    /\ UNCHANGED <<dirs, files>>
    /\ ReqFrame

\* the event loop enters the request's handler
Begin(r) ==
    /\ reqs[r].pc = "pending"
    /\ LoopIdle(r)
    /\ reqs' = [reqs EXCEPT ![r].pc = "running"]
    /\ UNCHANGED <<dirs, files>>
    /\ ReqFrame

\* run_selection up to open("w"): a cache hit or a select that raises ends
\* the handler, otherwise the record's file is opened and emptied
Select(r) ==
    /\ reqs[r].pc = "running"
    /\ \E raises \in SelectRaises :
         \E look \in {CacheLookup(reqs[r].use_cache, dirs, files, D1,
                                  reqs[r].class)} :
            IF look.ret # None \/ raises
            THEN /\ reqs' = [reqs EXCEPT ![r].pc = "done"]
                 /\ dirs' = look.dirs
                 /\ files' = files
            ELSE \E out \in {save_result(look.dirs, files, RecordOf(r),
                                         "write")} :
                    /\ reqs' = [reqs EXCEPT ![r].pc = "writing"]
                    /\ dirs' = out.dirs
                    /\ files' = out.files
    /\ ReqFrame

\* json.dump finishes, or fails and leaves the file as it is, and the
\* handler returns
Dumped(r) ==
    /\ reqs[r].pc = "writing"
    /\ \E fault \in {"none", "write"} :
         \E out \in {save_result(dirs, files, RecordOf(r), fault)} :
            /\ dirs' = out.dirs
            /\ files' = out.files
    /\ reqs' = [reqs EXCEPT ![r].pc = "done"]
    /\ ReqFrame

(***************************************************************************)
(* Callers of save_result around a run                                     *)
(***************************************************************************)
MaxMixPuts == 2

\* a selector_name that is a relative path to X
DotSlashX == <<".", "/", "X">>

\* the records callers save around a run: those of the run's date under a
\* class name or under DotSlashX, and one of another date
MixRecords ==
    { [selector_name |-> c, alias |-> a, trade_date |-> D1,
       selected_stocks |-> p.picks, scores |-> p.scores,
       count |-> Len(p.picks)] :
      c \in Classes \cup {DotSlashX}, a \in Aliases, p \in {PlainPayload} }
    \cup
    { [selector_name |-> ClassX, alias |-> "A", trade_date |-> D2,
       selected_stocks |-> ScoredPayload.picks,
       scores |-> ScoredPayload.scores,
       count |-> Len(ScoredPayload.picks)] }

\* the configuration lists of the run
MixConfigLists ==
    { << [class |-> ClassX, alias |-> "B", activate |-> TRUE,
          params |-> "ok"] >>,
      << [class |-> ClassY, alias |-> "A", activate |-> TRUE,
          params |-> "ok"],
         [class |-> ClassX, alias |-> "A", activate |-> TRUE,
          params |-> "ok"] >> }

\* a caller saves a record before or after the run (the history of
\* SpecStore is not kept here)
MixPut ==
    /\ phase \in {"idle", "returned"}
    /\ ops < MaxMixPuts
    /\ \E r \in MixRecords, fault \in PutFaults :
         \E out \in {save_result(dirs, files, r, fault)} :
            /\ dirs' = out.dirs
            /\ files' = out.files
    /\ ops' = ops + 1
    /\ UNCHANGED <<runVars, last, written, auxVars>>

(***************************************************************************)
(* Specifications                                                          *)
(***************************************************************************)
NoProbe == [n |-> 0, key1 |-> <<D1, ClassX>>, loc1 |-> result_dir,
            key2 |-> <<D1, ClassX>>, loc2 |-> result_dir]

\* ResultStorage.__init__ has created result_dir; nothing has been called
Init ==
    /\ dirs = Ancestors(result_dir)
    /\ files = [q \in {} |-> Partial]
    /\ last = NoCall
    /\ written = [k \in Keys |-> None]
    /\ phase = "idle"
    /\ runNo = 0
    /\ trade_date_str = D1
    /\ cfgs = <<>>
    /\ use_cache = TRUE
    /\ save_result_flag = TRUE
    /\ idx = 0
    /\ results = <<>>
    /\ events = <<>>
    /\ prev = NoPrev
    /\ ops = 0
    /\ probe = NoProbe
    /\ entry = NoEntry
    /\ listing = NoListing
    /\ reqs = NoReqs

\* one run on a store that holds nothing
Next ==
    \/ StartRun(ConfigLists)
    \/ ProcessConfig
    \/ FinishRun

Spec == Init /\ [][Next]_vars

\* callers save records, then a run, then the same run again
NextCached ==
    \/ Preload
    \/ StartRun(ShortConfigLists)
    \/ ProcessConfig
    \/ FinishRun
    \/ Rerun

SpecCached == Init /\ [][NextCached]_vars

\* the store alone: callers save and load records
NextStore ==
    \/ StorePut
    \/ StoreGet

SpecStore == Init /\ [][NextStore]_vars

\* address resolution alone
NextAddr == Resolve

SpecAddr == Init /\ [][NextAddr]_vars

\* one call of run_selection from its first line
NextEntry ==
    \/ Enter
    \/ ProcessConfig
    \/ FinishRun

SpecEntry == Init /\ [][NextEntry]_vars

\* the store with its listings
NextList ==
    \/ ListPut
    \/ ListGet
    \/ ListExists
    \/ ListLoadAll
    \/ ListDates
    \/ ListSelectors

SpecList == Init /\ [][NextList]_vars

\* two requests for the same trade date
NextConc ==
    \/ \E r \in Requests : Receive(r)
    \/ \E r \in Requests : Begin(r)
    \/ \E r \in Requests : Select(r)
    \/ \E r \in Requests : Dumped(r)

SpecConc == Init /\ [][NextConc]_vars

\* callers save records, a run, callers save records
NextMixed ==
    \/ MixPut
    \/ StartRun(MixConfigLists)
    \/ ProcessConfig
    \/ FinishRun

SpecMixed == Init /\ [][NextMixed]_vars

(***************************************************************************)
(* Properties                                                              *)
(***************************************************************************)
\* a configuration the loop goes on with: active, and it instantiates
Usable(cfg) == cfg.activate /\ instantiate_selector(cfg).ok

\* the entry a successful select of cfg is to give
ExpectedFresh(cfg) ==
    [selector_name |-> cfg.class,
     alias |-> cfg.alias,
     trade_date |-> trade_date_str,
     selected_stocks |-> Returns(cfg).picks,
     scores |-> Returns(cfg).scores,
     count |-> Len(Returns(cfg).picks)]

\* the entry of the i-th configuration: the stored record on a hit
EntryAt(i) ==
    IF events[i].kind = "hit" THEN events[i].cached ELSE ExpectedFresh(cfgs[i])

\* the entries of the configurations in S among the first n, in list order
RECURSIVE Gather(_, _)
Gather(n, S) ==
    IF n = 0 THEN <<>>
    ELSE Gather(n - 1, S) \o (IF n \in S THEN <<EntryAt(n)>> ELSE <<>>)

Produced(i) == events[i].kind \in {"hit", "fresh"}

\* the record load_result gives for an address in the current state
StoredAt(d, s) == load_result(dirs, files, d, s).ret

NoSelectInvoked == \A i \in 1..Len(events) : ~events[i].invoked

FirstCallClean ==
    \A j \in 1..Len(prev.events) :
        /\ prev.events[j].kind # "select_raised"
        /\ prev.events[j].saved # "failed"

\* C1 as stated: whenever a call with use_cache is repeated with the same
\* arguments, the second call returns what the first returned and invokes
\* select on no strategy, whatever save_result is.
C1_IdempotentCaching ==
    (phase = "returned" /\ runNo = 2 /\ use_cache)
        => (results = prev.out /\ NoSelectInvoked)

\* C1 amended: when a call with use_cache and save_result is repeated with
\* the same arguments, and in the first call no select raised and no save
\* failed, the second call returns what the first returned and invokes
\* select on no strategy.
C1_IdempotentCachingWhenSaved ==
    (phase = "returned" /\ runNo = 2 /\ use_cache /\ save_result_flag
     /\ FirstCallClean)
        => (results = prev.out /\ NoSelectInvoked)

C1_Witness ==
    /\ phase = "returned" /\ runNo = 2 /\ use_cache /\ save_result_flag
    /\ FirstCallClean
    /\ \E j \in 1..Len(prev.events) : prev.events[j].kind = "fresh"
    /\ Len(results) >= 1
    /\ results = prev.out

\* C2: a select that raises does not make run_selection raise; every
\* configuration of the list is processed, every usable one is looked up or
\* invoked, and the output is the entries of the usable configurations whose
\* select did not raise, in list order.
C2_PartialFailureIsolation ==
    /\ phase # "raised"
    /\ phase = "returned" =>
         /\ Len(events) = Len(cfgs)
         /\ \A i \in 1..Len(cfgs) :
               Usable(cfgs[i]) => (events[i].asked \/ events[i].invoked)
         /\ results = Gather(Len(cfgs),
                             {i \in 1..Len(cfgs) :
                                 /\ Usable(cfgs[i])
                                 /\ events[i].kind # "select_raised"})

C2_Witness ==
    /\ phase = "returned"
    /\ Len(cfgs) = 3
    /\ Len(events) = 3
    /\ events[1].kind = "fresh"
    /\ events[2].kind = "select_raised"
    /\ events[3].kind = "fresh"
    /\ results = <<ExpectedFresh(cfgs[1]), ExpectedFresh(cfgs[3])>>
    /\ cfgs[1] # cfgs[3]

\* C3: at every point of the loop the output holds exactly one entry for
\* each processed configuration that is active, instantiates and either hit
\* the cache or was invoked successfully, in list order, and nothing else;
\* the function returns after the whole list.
C3_OutputOrderAndContent ==
    /\ Len(events) = idx
    /\ results = Gather(idx, {i \in 1..idx : Usable(cfgs[i]) /\ Produced(i)})
    /\ phase = "returned" => idx = Len(cfgs)

C3_Witness ==
    /\ phase = "returned"
    /\ Len(cfgs) = 3
    /\ Len(events) = 3
    /\ events[1].kind = "fresh"
    /\ events[2].kind = "inactive"
    /\ events[3].kind = "hit"
    /\ Len(results) = 2
    /\ cfgs[1] # cfgs[3]

\* C4: the iteration for a configuration with activate = False appends
\* nothing, instantiates nothing, invokes nothing, does not ask the store
\* and leaves the records and the date partitions as they are.
C4_SkipInactive ==
    [][(phase = "running" /\ idx < Len(cfgs)
        /\ cfgs[idx + 1].activate = FALSE)
       => /\ results' = results
          /\ dirs' = dirs
          /\ files' = files
          /\ events'[idx + 1].inst = FALSE
          /\ events'[idx + 1].asked = FALSE
          /\ events'[idx + 1].invoked = FALSE
          /\ events'[idx + 1].saved = "no"]_vars

C4_Witness ==
    /\ phase = "returned"
    /\ Len(cfgs) = 2
    /\ Len(events) = 2
    /\ cfgs[2].activate = FALSE
    /\ cfgs[1].class = cfgs[2].class
    /\ events[1].kind = "fresh"
    /\ use_cache
    /\ save_result_flag
    /\ StoredAt(trade_date_str, cfgs[2].class) # None
    /\ Len(results) = 1

\* C5: with use_cache, when the store holds a readable record at the
\* address of a usable configuration, the iteration appends that record as
\* stored, invokes no select and writes nothing, whatever save_result is.
C5_CacheHit ==
    [][(phase = "running" /\ idx < Len(cfgs) /\ use_cache
        /\ Usable(cfgs[idx + 1])
        /\ StoredAt(trade_date_str, cfgs[idx + 1].class) # None)
       => /\ results' =
               Append(results, StoredAt(trade_date_str, cfgs[idx + 1].class))
          /\ files' = files
          /\ dirs' = dirs
          /\ written' = written
          /\ events'[idx + 1].invoked = FALSE
          /\ events'[idx + 1].saved = "no"]_vars

C5_Witness ==
    /\ runNo = 1
    /\ save_result_flag
    /\ Len(events) = 1
    /\ events[1].kind = "hit"
    /\ events[1].cached.alias # cfgs[1].alias
    /\ results = <<events[1].cached>>

\* C6: a load_result that directly follows a successful save_result of r,
\* at r's address, returns r in every field.
C6_RoundTrip ==
    (last.op = "load_result" /\ last.follows # None)
        => last.rec = last.follows

C6_Witness ==
    /\ last.op = "load_result"
    /\ last.follows # None
    /\ last.follows.scores = None
    /\ last.rec = last.follows

HasSlash(s) == \E i \in 1..Len(s) : s[i] = "/"

Digits == {"0", "1", "2", "3", "4", "5", "6", "7", "8", "9"}

\* YYYY-MM-DD
CanonicalDate(d) ==
    /\ Len(d) = 10
    /\ d[5] = "-" /\ d[8] = "-"
    /\ \A i \in {1, 2, 3, 4, 6, 7, 9, 10} : d[i] \in Digits

AddressKey(k) == CanonicalDate(k[1]) /\ ~HasSlash(k[2])

ResolvedAlike ==
    /\ probe.key1 # probe.key2 => probe.loc1 # probe.loc2
    /\ probe.key1 = probe.key2 => probe.loc1 = probe.loc2

\* C7 as stated: any two distinct pairs of strings resolve to distinct
\* locations, and the same pair resolves to the same location.
C7_AddressUniqueness == probe.n = 2 => ResolvedAlike

\* C7 amended: two distinct pairs whose trade date is a YYYY-MM-DD date and
\* whose selector name holds no path separator resolve to distinct
\* locations, and the same pair resolves to the same location.
C7_AddressUniquenessOfDates ==
    (probe.n = 2 /\ AddressKey(probe.key1) /\ AddressKey(probe.key2))
        => ResolvedAlike

C7_Witness ==
    /\ probe.n = 2
    /\ AddressKey(probe.key1) /\ AddressKey(probe.key2)
    /\ probe.key1[1] # probe.key2[1]
    /\ probe.key1[2] = probe.key2[2]
    /\ probe.loc1 # probe.loc2

\* C8: every entry of the output, computed or served from the store, has
\* count equal to the number of its selected stocks.
C8_CountInvariant ==
    \A i \in 1..Len(results) :
        results[i].count = Len(results[i].selected_stocks)

\* C9: at every address load_result returns the record of the most recent
\* save_result there that returned True (None when there was none); so a
\* save at one address changes the record of no other address.
C9_LastWriteWins ==
    \A k \in Keys : StoredAt(k[1], k[2]) = written[k]

\* C10: a save that fails does not raise; the computed result is in the
\* output at its place, and the loop goes on to the end of the list.
C10_WriteFailureNotFatal ==
    /\ phase # "raised"
    /\ \A i \in 1..Len(events) :
          events[i].saved = "failed" =>
              /\ events[i].kind = "fresh"
              /\ Cardinality({j \in 1..i : Produced(j)}) <= Len(results)
              /\ results[Cardinality({j \in 1..i : Produced(j)})]
                    = ExpectedFresh(cfgs[i])
    /\ phase = "returned" => Len(events) = Len(cfgs)

C10_Witness ==
    /\ phase = "returned"
    /\ Len(events) = 2
    /\ events[1].saved = "failed"
    /\ events[2].kind = "fresh"
    /\ results = <<ExpectedFresh(cfgs[1]), ExpectedFresh(cfgs[2])>>
    /\ cfgs[1] # cfgs[2]

\* the iteration about to run: the loop is at a configuration
AtConfig == phase = "running" /\ idx < Len(cfgs)

\* the path of the record of the configuration the loop is at
PathAtConfig == ResultPath(trade_date_str, cfgs[idx + 1].class)

\* C11: when the file of a usable configuration's address exists and does
\* not deserialize, load_result gives None; an iteration with use_cache then
\* asks the store, invokes select, raises nothing and, when select returns,
\* appends the fresh result.
C11_CorruptRecordIsMiss ==
    [][(AtConfig /\ use_cache /\ Usable(cfgs[idx + 1])
        /\ PathAtConfig \in DOMAIN files
        /\ ~files[PathAtConfig].complete)
       => /\ StoredAt(trade_date_str, cfgs[idx + 1].class) = None
          /\ events'[idx + 1].asked
          /\ events'[idx + 1].invoked
          /\ events'[idx + 1].kind \in {"fresh", "select_raised"}
          /\ phase' # "raised"
          /\ events'[idx + 1].kind = "fresh"
                => results' = Append(results, ExpectedFresh(cfgs[idx + 1]))]_vars

C11_Witness ==
    /\ runNo = 1
    /\ use_cache
    /\ ~save_result_flag
    /\ Len(events) = 1
    /\ events[1].asked
    /\ events[1].kind = "fresh"
    /\ ResultPath(trade_date_str, cfgs[1].class) \in DOMAIN files
    /\ ~files[ResultPath(trade_date_str, cfgs[1].class)].complete
    /\ results = <<ExpectedFresh(cfgs[1])>>

\* C13: the iteration for an active configuration whose instantiation fails
\* appends nothing, does not ask the store, invokes nothing, writes nothing
\* and raises nothing, also when a record is stored at its address; the loop
\* goes on to the end of the list.
C13_InstantiationFailureSkips ==
    [][(AtConfig /\ cfgs[idx + 1].activate
        /\ ~instantiate_selector(cfgs[idx + 1]).ok)
       => /\ results' = results
          /\ files' = files
          /\ dirs' = dirs
          /\ events'[idx + 1].asked = FALSE
          /\ events'[idx + 1].invoked = FALSE
          /\ events'[idx + 1].saved = "no"
          /\ phase' = "running"
          /\ idx' = idx + 1]_vars

C13_Witness ==
    /\ phase = "returned"
    /\ use_cache
    /\ Len(cfgs) = 3
    /\ Len(events) = 3
    /\ events[1].kind = "fresh"
    /\ events[1].saved = "ok"
    /\ events[2].kind = "inst_failed"
    /\ cfgs[2].class = cfgs[1].class
    /\ StoredAt(trade_date_str, cfgs[2].class) # None
    /\ events[3].kind = "hit"
    /\ Len(results) = 2

\* C14: an iteration calls save_result exactly when save_result is set and
\* select was invoked and returned; a save that succeeds leaves the appended
\* entry as the record of the configuration's address and no other file
\* changed; an iteration that does not save leaves every file as it was.
C14_WriteBackOnlyOnFreshResult ==
    [][AtConfig
       => /\ events'[idx + 1].saved # "no"
                <=> (save_result_flag /\ events'[idx + 1].invoked
                     /\ events'[idx + 1].kind = "fresh")
          /\ events'[idx + 1].saved = "no" => files' = files
          /\ events'[idx + 1].saved = "ok"
                => /\ results' = Append(results, ExpectedFresh(cfgs[idx + 1]))
                   /\ files' = SetFile(files, PathAtConfig,
                                       Document(ExpectedFresh(cfgs[idx + 1])))]_vars

C14_Witness ==
    /\ phase = "returned"
    /\ save_result_flag
    /\ Len(cfgs) = 3
    /\ Len(events) = 3
    /\ events[1].kind = "fresh" /\ events[1].saved = "ok"
    /\ events[2].kind = "select_raised"
    /\ events[3].kind = "hit"
    /\ cfgs[2].class # cfgs[1].class
    /\ StoredAt(trade_date_str, cfgs[2].class) = None
    /\ StoredAt(trade_date_str, cfgs[1].class) = ExpectedFresh(cfgs[1])

Universe ==
    IF entry.tickers = None
    THEN {c \in Codes : entry.data_dir.csv[c] # NoCsv}
    ELSE entry.tickers.codes

Loaded == {c \in Universe \cap Codes : entry.data_dir.csv[c] # NoCsv}

Fatal == ~entry.data_dir.exists \/ Universe = {} \/ Loaded = {}

\* C12: when the data directory is absent, the universe is empty or no
\* series loads, run_selection raises an HTTP error to its caller and the
\* loop is never entered: nothing is instantiated or invoked, and the store
\* is neither read nor written.
C12_RunLevelFatalErrors ==
    (entry.called /\ Fatal)
        => /\ phase = "raised"
           /\ entry.status \in {400, 404}
           /\ idx = 0
           /\ events = <<>>
           /\ results = <<>>
           /\ DOMAIN files = {}
           /\ dirs = Ancestors(result_dir)
           /\ \A k \in Keys : written[k] = None

C12_Witness ==
    /\ entry.called
    /\ entry.data_dir.exists
    /\ Universe = {"c1"}
    /\ Loaded = {}
    /\ entry.data_dir.csv["c2"] # NoCsv
    /\ entry.trade_date # None
    /\ phase = "raised"
    /\ entry.status = 404
    /\ events = <<>>

AllLoadedDays == UNION {entry.data_dir.csv[c].dates : c \in Loaded}

\* C17: when trade_date is not given and the run starts, the trade date is
\* the latest day found in any of the loaded series, formatted YYYY-MM-DD.
C17_DateResolution ==
    (entry.called /\ entry.status = 200 /\ entry.trade_date = None)
        => \E d \in AllLoadedDays :
              /\ \A e \in AllLoadedDays : e <= d
              /\ trade_date_str = strftime(d)

C17_Witness ==
    /\ entry.called
    /\ entry.status = 200
    /\ entry.trade_date = None
    /\ entry.tickers = None
    /\ entry.data_dir.csv["c1"] = Csv({10})
    /\ entry.data_dir.csv["c2"] = Csv({10, 12})
    /\ entry.data_dir.csv["c3"] = Csv({10, 11})
    /\ trade_date_str = D2
    /\ phase = "returned"

\* the names of the date partitions
Partitions == {Name(q) : q \in SubDirs(dirs, result_dir)}

\* a calendar date written YYYY-MM-DD
CalendarDate(n) ==
    /\ CanonicalDate(n)
    /\ FieldVal(SubSeq(n, 1, 4), 0) >= 1
    /\ FieldVal(SubSeq(n, 6, 7), 0) \in 1..12
    /\ FieldVal(SubSeq(n, 9, 10), 0)
          \in 1..DaysInMonth(FieldVal(SubSeq(n, 1, 4), 0),
                             FieldVal(SubSeq(n, 6, 7), 0))

\* year, month and day as one number that orders the dates
DateNumber(n) ==
    FieldVal(SubSeq(n, 1, 4), 0) * 10000 + FieldVal(SubSeq(n, 6, 7), 0) * 100
    + FieldVal(SubSeq(n, 9, 10), 0)

\* C15: list_available_dates returns exactly the partitions whose name is a
\* calendar date written YYYY-MM-DD, each once, the latest date first.
C15_ListDates ==
    listing.op = "list_available_dates"
        => /\ {listing.ret[i] : i \in 1..Len(listing.ret)}
                 = {n \in Partitions : CalendarDate(n)}
           /\ \A i \in 1..Len(listing.ret), j \in 1..Len(listing.ret) :
                 i < j => DateNumber(listing.ret[i]) > DateNumber(listing.ret[j])

\* the selector names whose address holds a record
HoldsRecord(d, s) == StoredAt(d, s) # None

\* C16: load_all_results with a list of names, the empty list included,
\* returns the records of exactly the listed names whose address holds a
\* record; without a list it returns every record of the date.
C16_LoadAll ==
    listing.op = "load_all_results"
        => /\ listing.names # None
                => DOMAIN listing.ret
                      = {listing.names.items[i] :
                            i \in {k \in 1..Len(listing.names.items) :
                                      HoldsRecord(listing.date,
                                                  listing.names.items[k])}}
           /\ listing.names = None
                => DOMAIN listing.ret
                      = {s \in Classes : HoldsRecord(listing.date, s)}
           /\ \A s \in DOMAIN listing.ret :
                 listing.ret[s] = StoredAt(listing.date, s)

\* C18: every date list_available_dates returns has a stored record.
C18_ListedDatesHaveResults ==
    listing.op = "list_available_dates"
        => \A i \in 1..Len(listing.ret) :
              \E s \in Classes : HoldsRecord(listing.ret[i], s)

Writers(c) == {q \in Requests : reqs[q].pc = "writing" /\ reqs[q].class = c}

\* C19: of the requests in progress for one trade date, at most one at a
\* time has the file of an address open for writing, and a record readable
\* at an address is the whole record of one of the runs.
C19_SingleWriterPerAddress ==
    \A c \in Classes :
        /\ Cardinality(Writers(c)) <= 1
        /\ HoldsRecord(D1, c)
              => \E q \in Requests :
                    /\ reqs[q].pc \in {"writing", "done"}
                    /\ reqs[q].class = c
                    /\ StoredAt(D1, c) = RecordOf(q)

C19_Witness ==
    /\ reqs[1].pc = "writing"
    /\ reqs[2].pc = "pending"
    /\ reqs[1].class = reqs[2].class
    /\ reqs[1].alias # reqs[2].alias
    /\ ~reqs[2].use_cache
    /\ StoredAt(D1, reqs[1].class) = None

\* the entry the i-th configuration added to the list
ResultOf(i) == results[Cardinality({k \in 1..i : Produced(k)})]

\* i and j are two active configurations of one strategy, i the first of it
SameStrategyPair(i, j) ==
    /\ i < j
    /\ cfgs[i].class = cfgs[j].class
    /\ cfgs[i].activate
    /\ cfgs[j].activate
    /\ \A k \in 1..(i - 1) :
          ~(cfgs[k].activate /\ cfgs[k].class = cfgs[i].class)

\* the first was invoked and written, the second was served from its record
ServedFromFirst(i, j) ==
    /\ events[i].invoked
    /\ events[i].kind = "fresh"
    /\ events[i].saved = "ok"
    /\ events[j].kind = "hit"
    /\ ~events[j].invoked
    /\ ResultOf(j) = ResultOf(i)
    /\ ResultOf(j).alias = cfgs[i].alias

\* C22 as stated: in a run with use_cache and save_result on an empty store,
\* of two active configurations of one strategy the first is invoked and
\* written and the second is served from that record, with the first's
\* alias.
C22_SameStrategyTwice ==
    (phase = "returned" /\ use_cache /\ save_result_flag)
        => \A i \in 1..Len(cfgs), j \in 1..Len(cfgs) :
              SameStrategyPair(i, j) => ServedFromFirst(i, j)

\* C22 amended: the same, when both configurations instantiate, the first
\* one's select did not raise and its save did not fail.
C22_SameStrategyTwiceWhenStored ==
    (phase = "returned" /\ use_cache /\ save_result_flag)
        => \A i \in 1..Len(cfgs), j \in 1..Len(cfgs) :
              (/\ SameStrategyPair(i, j)
               /\ Usable(cfgs[i])
               /\ Usable(cfgs[j])
               /\ events[i].kind # "select_raised"
               /\ events[i].saved # "failed")
                  => ServedFromFirst(i, j)

C22_Witness ==
    /\ phase = "returned"
    /\ use_cache
    /\ save_result_flag
    /\ Len(cfgs) = 2
    /\ SameStrategyPair(1, 2)
    /\ cfgs[1].alias # cfgs[2].alias
    /\ Usable(cfgs[1])
    /\ Usable(cfgs[2])
    /\ events[1].kind = "fresh"
    /\ events[1].saved = "ok"
    /\ events[2].kind = "hit"
    /\ results[2].alias = cfgs[1].alias

\* the addresses callers and runs of SpecMixed read
MixAddresses == Dates \X (Classes \cup {DotSlashX})

\* the record readable at the address carries the address
MatchesAddress(k) ==
    HoldsRecord(k[1], k[2])
        => /\ StoredAt(k[1], k[2]).trade_date = k[1]
           /\ StoredAt(k[1], k[2]).selector_name = k[2]

\* the configurations whose entries are in results, in list order
ProducedUpTo(n) == {i \in 1..n : Produced(i)}

\* the i-th entry of results carries the run's date and its configuration's
\* class name
EntryMatchesConfig(i) ==
    /\ ResultOf(i).trade_date = trade_date_str
    /\ ResultOf(i).selector_name = cfgs[i].class

\* C21 as stated: in every state reached from the empty store through
\* save_result and run_selection, the record readable at an address has the
\* address's trade date and selector name, and every entry of a run, cache
\* hits included, has the run's trade date and its configuration's class
\* name.
C21_StoredRecordMatchesAddress ==
    /\ \A k \in MixAddresses : MatchesAddress(k)
    /\ \A i \in ProducedUpTo(Len(events)) : EntryMatchesConfig(i)

\* C21 amended: the same for the addresses and the records whose trade date
\* is in the form YYYY-MM-DD and whose selector name holds no path
\* separator.
C21_StoredRecordMatchesAddressOfNames ==
    /\ \A k \in MixAddresses :
          (/\ AddressKey(k)
           /\ HoldsRecord(k[1], k[2])
                 => AddressKey(KeyOf(StoredAt(k[1], k[2]))))
              => MatchesAddress(k)
    /\ \A i \in ProducedUpTo(Len(events)) :
          AddressKey(KeyOf(ResultOf(i))) => EntryMatchesConfig(i)

C21_Witness ==
    /\ phase = "returned"
    /\ use_cache
    /\ Len(cfgs) = 2
    /\ events[1].kind = "fresh" /\ events[1].saved = "ok"
    /\ events[2].kind = "hit"
    /\ AddressKey(KeyOf(ResultOf(2)))
    /\ ResultOf(2).alias # cfgs[2].alias
    /\ HoldsRecord(D2, ClassX)
    /\ HoldsRecord(D1, ClassX)
    /\ HoldsRecord(D1, ClassY)

====
